---- MODULE Spec2Model ----
(***************************************************************************)
(* Model of the zk-Census Anchor program (programs/census/src).            *)
(*                                                                         *)
(* One action per instruction of the #[program] module.  An instruction    *)
(* is a transaction: Anchor validates the accounts of its context struct   *)
(* (contexts.rs), then runs the handler (instructions/*.rs); the account   *)
(* writes of an instruction that returns Err are discarded.  Events are    *)
(* program logs: whatever a handler emitted before it failed stays         *)
(* emitted, so each handler is modelled with the position of its emit!.    *)
(*                                                                         *)
(* u64 counters are modelled with a scaled-down width: checked_add fails   *)
(* at U64_MAX.  Byte arrays that are only compared for equality (roots,    *)
(* nullifier hashes) are abstract values; the external nullifier is a      *)
(* 32-byte sequence because the handlers compute it byte by byte.          *)
(***************************************************************************)
EXTENDS Integers, Sequences, FiniteSets, TLC

\* ------------------------------------------------------------------ bounds

\* Largest value of a u64 counter (width scaled down for model checking).
U64_MAX == 2

\* The clock sysvar takes the values 0..MaxClock.
MaxClock == 1

\* ------------------------------------------------------- program constants

\* submit_attestation.rs: time_diff < 300
ATTESTATION_WINDOW == 300

\* ------------------------------------------------------------- input sets

\* Identities that sign the admin instructions.
Pubkeys == {"operator", "outsider"}

\* Who signs initialize.  No instruction treats a key specially, so the
\* deployments initialized by the other identities are this one renamed.
Deployers == {"operator"}

\* initialize(scope_duration): one week, as in the doc comment of state.rs.
ScopeDurations == {604800}

\* Pubkey::default(): the admin field of an account that was never written.
DefaultPubkey == "default"

\* The signers the deployment trusts to attest (the spec's allow-list; the
\* program stores no such list).
AuthorizedVerifiers == {"verifier"}

\* Merkle roots: 0 is [0u8; 32], the root written by initialize.
ZeroRoot == 0
Roots == {ZeroRoot, 1}

\* Nullifier hashes: one more than a counter can count, so that the
\* population counter can reach its maximum.
NullifierHashes == 1..(U64_MAX + 1)

\* Identity commitments enrolled and signal hashes submitted; no handler
\* reads either.
Commitments == {0}
SignalHashes == {0}

\* Who pays for a submission; no constraint and no handler reads the payer.
Payers == {"outsider"}

\* now - timestamp of the attestations submitted.
TimeDiffs == {-1, 0, 299, 300}

\* ----------------------------------------------------------- byte encoding

\* u64::to_le_bytes, least significant byte first, k bytes.
RECURSIVE to_le_bytes(_, _)
to_le_bytes(n, k) ==
    IF k = 0 THEN <<>> ELSE <<n % 256>> \o to_le_bytes(n \div 256, k - 1)

Zeros(k) == [i \in 1..k |-> 0]

\* let mut expected_external = [0u8; 32];
\* expected_external[..8].copy_from_slice(&scope_bytes);
ExpectedExternalOf == [scope \in 0..(U64_MAX + 1) |-> to_le_bytes(scope, 8) \o Zeros(24)]

expected_external(scope) == ExpectedExternalOf[scope]

\* External nullifiers a client may send: the binding value of every scope,
\* and the binding value of scope 1 with a non-zero byte after the first
\* eight.
ExternalNullifiers ==
    {expected_external(s) : s \in 1..U64_MAX}
    \cup {[expected_external(1) EXCEPT ![9] = 1]}

\* ------------------------------------------------------------------ state

VARIABLES
    initialized,   \* the census_state PDA exists (created by initialize)
    census_state,  \* state.rs CensusState
    nullifiers,    \* the Nullifier PDAs: nullifier hash (the PDA seed) -> Nullifier
    clock,         \* Clock::get()?.unix_timestamp
    last,          \* the last transaction: instruction, signer, error, events
    accepted,      \* history: successful submissions per nullifier hash
    counted        \* history: CensusCounted events since the last
                   \* ScopeAdvanced event (since initialize)

vars == <<initialized, census_state, nullifiers, clock, last, accepted, counted>>

\* The fields of CensusState the handlers read or write (merkle_tree is
\* written once with Pubkey::default() and never read; bump is the PDA bump).
NoCensusState ==
    [admin |-> DefaultPubkey, merkle_root |-> ZeroRoot, current_scope |-> 0,
     scope_start_time |-> 0, scope_duration |-> 0, total_registered |-> 0,
     current_population |-> 0, leaf_count |-> 0, is_active |-> FALSE]

\* A Nullifier account as `init` leaves it: allocated, zeroed.
ZeroedNullifier == [nullifier_hash |-> 0, scope |-> 0, timestamp |-> 0]

NoEvents == <<>>

\* The result of an instruction: its error ("Ok" when it returns Ok(())),
\* the accounts as the instruction left them, and the events it emitted.
Result(err, cs, nul, ev) == [err |-> err, cs |-> cs, nul |-> nul, ev |-> ev]

\* The accounts as written by the handler up to the point it returned.
Failed(err, cs, nul, ev) == Result(err, cs, nul, ev)

checked_add_1_Wrapping(x) == (x + 1) % (U64_MAX + 1)

\* u64::checked_add(1): None (here -1) on overflow.
checked_add_1(x) == IF x >= U64_MAX THEN -1 ELSE x + 1

\* ------------------------------------------------------------- initialize

\* contexts.rs Initialize: census_state is `init`: the creation fails when
\* the PDA already exists.  Then initialize.rs handler.
initialize(signer, scope_duration) ==
    IF initialized
    THEN Failed("AccountAlreadyInUse", census_state, nullifiers, NoEvents)
    ELSE Result("Ok",
                [admin |-> signer, merkle_root |-> ZeroRoot, current_scope |-> 1,
                 scope_start_time |-> clock, scope_duration |-> scope_duration,
                 total_registered |-> 0, current_population |-> 0,
                 leaf_count |-> 0, is_active |-> TRUE],
                nullifiers, NoEvents)

\* ------------------------------------------------------- register_citizen

\* contexts.rs RegisterCitizen: the account constraints, in declaration order.
RegisterCitizenAccounts(signer) ==
    IF ~initialized THEN "AccountNotInitialized"
    ELSE IF census_state.admin # signer THEN "UnauthorizedAdmin"
    ELSE IF ~census_state.is_active THEN "CensusNotActive"
    ELSE "Ok"

register_citizen_handler_SkipsTotal(identity_commitment) ==
    IF checked_add_1(census_state.leaf_count) = -1
    THEN Failed("ArithmeticOverflow", census_state, nullifiers, NoEvents)
    ELSE Result("Ok", [census_state EXCEPT !.leaf_count = @ + 1], nullifiers,
                <<[event |-> "CitizenRegistered",
                   commitment |-> identity_commitment,
                   leaf_index |-> census_state.leaf_count,
                   timestamp |-> clock]>>)

\* register_citizen.rs handler.
register_citizen_handler(identity_commitment) ==
    LET current_leaf_index == census_state.leaf_count
        leaf == checked_add_1(census_state.leaf_count)
        cs1 == [census_state EXCEPT !.leaf_count = leaf]
        total == checked_add_1(cs1.total_registered)
        cs2 == [cs1 EXCEPT !.total_registered = total]
    IN  IF leaf = -1
        THEN Failed("ArithmeticOverflow", census_state, nullifiers, NoEvents)
        ELSE IF total = -1
        THEN Failed("ArithmeticOverflow", cs1, nullifiers, NoEvents)
        ELSE Result("Ok", cs2, nullifiers,
                    <<[event |-> "CitizenRegistered",
                       commitment |-> identity_commitment,
                       leaf_index |-> current_leaf_index,
                       timestamp |-> clock]>>)

register_citizen(signer, identity_commitment) ==
    LET acc == RegisterCitizenAccounts(signer)
    IN  IF acc # "Ok"
        THEN Failed(acc, census_state, nullifiers, NoEvents)
        ELSE register_citizen_handler(identity_commitment)

\* -------------------------------------------------------- set_merkle_root

\* contexts.rs SetMerkleRoot.
SetMerkleRootAccounts(signer) ==
    IF ~initialized THEN "AccountNotInitialized"
    ELSE IF census_state.admin # signer THEN "UnauthorizedAdmin"
    ELSE "Ok"

\* set_merkle_root.rs handler.
set_merkle_root_handler(root) ==
    Result("Ok", [census_state EXCEPT !.merkle_root = root], nullifiers, NoEvents)

set_merkle_root(signer, root) ==
    LET acc == SetMerkleRootAccounts(signer)
    IN  IF acc # "Ok"
        THEN Failed(acc, census_state, nullifiers, NoEvents)
        ELSE set_merkle_root_handler(root)

\* ---------------------------------------------------------- advance_scope

AdvanceScopeAccounts_NoConstraint(signer) ==
    IF ~initialized THEN "AccountNotInitialized" ELSE "Ok"

\* contexts.rs AdvanceScope.
AdvanceScopeAccounts(signer) ==
    IF ~initialized THEN "AccountNotInitialized"
    ELSE IF census_state.admin # signer THEN "UnauthorizedAdmin"
    ELSE "Ok"

advance_scope_handler_KeepsPopulation ==
    IF checked_add_1(census_state.current_scope) = -1
    THEN Failed("ArithmeticOverflow", census_state, nullifiers, NoEvents)
    ELSE Result("Ok",
                [census_state EXCEPT !.current_scope = @ + 1,
                                     !.scope_start_time = clock],
                nullifiers,
                <<[event |-> "ScopeAdvanced",
                   old_scope |-> census_state.current_scope,
                   new_scope |-> census_state.current_scope + 1,
                   final_population |-> census_state.current_population,
                   timestamp |-> clock]>>)

advance_scope_handler_ClearsNullifiers ==
    IF checked_add_1(census_state.current_scope) = -1
    THEN Failed("ArithmeticOverflow", census_state, nullifiers, NoEvents)
    ELSE Result("Ok",
                [census_state EXCEPT !.current_scope = @ + 1,
                                     !.scope_start_time = clock,
                                     !.current_population = 0],
                <<>>,
                <<[event |-> "ScopeAdvanced",
                   old_scope |-> census_state.current_scope,
                   new_scope |-> census_state.current_scope + 1,
                   final_population |-> census_state.current_population,
                   timestamp |-> clock]>>)

advance_scope_handler_ResetsRegistered ==
    IF checked_add_1(census_state.current_scope) = -1
    THEN Failed("ArithmeticOverflow", census_state, nullifiers, NoEvents)
    ELSE Result("Ok",
                [census_state EXCEPT !.current_scope = @ + 1,
                                     !.scope_start_time = clock,
                                     !.current_population = 0,
                                     !.total_registered = 0],
                nullifiers,
                <<[event |-> "ScopeAdvanced",
                   old_scope |-> census_state.current_scope,
                   new_scope |-> census_state.current_scope + 1,
                   final_population |-> census_state.current_population,
                   timestamp |-> clock]>>)

advance_scope_handler_ReportsAfterReset ==
    LET next == checked_add_1(census_state.current_scope)
        cs1 == [census_state EXCEPT !.current_scope = next,
                                    !.scope_start_time = clock,
                                    !.current_population = 0]
    IN  IF next = -1
        THEN Failed("ArithmeticOverflow", census_state, nullifiers, NoEvents)
        ELSE Result("Ok", cs1, nullifiers,
                    <<[event |-> "ScopeAdvanced",
                       old_scope |-> census_state.current_scope,
                       new_scope |-> cs1.current_scope,
                       final_population |-> cs1.current_population,
                       timestamp |-> clock]>>)

\* advance_scope.rs handler.
advance_scope_handler ==
    LET old_scope == census_state.current_scope
        final_population == census_state.current_population
        next == checked_add_1(census_state.current_scope)
        cs1 == [census_state EXCEPT !.current_scope = next,
                                    !.scope_start_time = clock,
                                    !.current_population = 0]
    IN  IF next = -1
        THEN Failed("ArithmeticOverflow", census_state, nullifiers, NoEvents)
        ELSE Result("Ok", cs1, nullifiers,
                    <<[event |-> "ScopeAdvanced", old_scope |-> old_scope,
                       new_scope |-> cs1.current_scope,
                       final_population |-> final_population,
                       timestamp |-> clock]>>)

advance_scope(signer) ==
    LET acc == AdvanceScopeAccounts(signer)
    IN  IF acc # "Ok"
        THEN Failed(acc, census_state, nullifiers, NoEvents)
        ELSE advance_scope_handler

\* ---------------------------------------------------------- submit_census

\* public_inputs: [root, nullifierHash, signalHash, externalNullifier].
PublicInputs(root, nullifier_hash, signal_hash, external_nullifier) ==
    <<root, nullifier_hash, signal_hash, external_nullifier>>

\* A Groth16 proof, by what the verifier makes of it: whether its curve
\* points decode, and the public inputs it verifies against.
Proof(format_ok, proves) == [format_ok |-> format_ok, proves |-> proves]

\* groth16::verify_groth16_proof: an error for a malformed proof, otherwise
\* whether the proof verifies against these public inputs.
verify_groth16_proof(proof, public_inputs) ==
    IF ~proof.format_ok THEN "InvalidProofFormat"
    ELSE IF proof.proves = public_inputs THEN "true"
    ELSE "false"

\* The proofs a client may send with given public inputs: one that proves
\* them, one made for another root, and one that does not decode.
ProofsFor(public_inputs) ==
    {Proof(TRUE, public_inputs),
     Proof(TRUE, [public_inputs EXCEPT ![1] = 1 - @]),
     Proof(FALSE, public_inputs)}

\* contexts.rs SubmitCensus / SubmitAttestation: the accounts that are not
\* `init` are loaded first; then the `init` account is created, which
\* fails when a Nullifier PDA with seeds [NULLIFIER_SEED, hash] exists; then
\* the constraints are checked.
NullifierInit_IfNeeded(nullifier_hash) ==
    IF ~initialized THEN "AccountNotInitialized"
    ELSE IF ~census_state.is_active THEN "CensusNotActive"
    ELSE "Ok"

NullifierInit(nullifier_hash) ==
    IF ~initialized THEN "AccountNotInitialized"
    ELSE IF nullifier_hash \in DOMAIN nullifiers THEN "AccountAlreadyInUse"
    ELSE IF ~census_state.is_active THEN "CensusNotActive"
    ELSE "Ok"

SubmitCensusAccounts(public_inputs) == NullifierInit(public_inputs[2])

\* The Nullifier accounts with the one `init` created.
WithNullifier(nullifier_hash, account) ==
    [h \in DOMAIN nullifiers \cup {nullifier_hash} |->
        IF h = nullifier_hash THEN account ELSE nullifiers[h]]

RecordSubmission_NoIncrement(nullifier_hash) ==
    Result("Ok", census_state,
           WithNullifier(nullifier_hash,
               [nullifier_hash |-> nullifier_hash,
                scope |-> census_state.current_scope, timestamp |-> clock]),
           <<[event |-> "CensusCounted", nullifier_hash |-> nullifier_hash,
              scope |-> census_state.current_scope,
              new_population |-> census_state.current_population,
              timestamp |-> clock]>>)

RecordSubmission_EmitsFirst(nullifier_hash) ==
    LET nul == WithNullifier(nullifier_hash,
                   [nullifier_hash |-> nullifier_hash,
                    scope |-> census_state.current_scope,
                    timestamp |-> clock])
        population == checked_add_1(census_state.current_population)
        ev == <<[event |-> "CensusCounted", nullifier_hash |-> nullifier_hash,
                 scope |-> census_state.current_scope,
                 new_population |-> census_state.current_population + 1,
                 timestamp |-> clock]>>
    IN  IF population = -1
        THEN Failed("ArithmeticOverflow", census_state, nul, ev)
        ELSE Result("Ok", [census_state EXCEPT !.current_population = population],
                    nul, ev)

\* Mark nullifier as used; increment population counter; emit.
\* (submit_census.rs 60-77, submit_attestation.rs 98-116: the same code.)
RecordSubmission(nullifier_hash) ==
    LET nul == WithNullifier(nullifier_hash,
                   [nullifier_hash |-> nullifier_hash,
                    scope |-> census_state.current_scope,
                    timestamp |-> clock])
        population == checked_add_1(census_state.current_population)
        cs1 == [census_state EXCEPT !.current_population = population]
    IN  IF population = -1
        THEN Failed("ArithmeticOverflow", census_state, nul, NoEvents)
        ELSE Result("Ok", cs1, nul,
                    <<[event |-> "CensusCounted",
                       nullifier_hash |-> nullifier_hash,
                       scope |-> cs1.current_scope,
                       new_population |-> cs1.current_population,
                       timestamp |-> clock]>>)

merkle_root_matches_Always(root) == TRUE

\* require!(proof_root == &census_state.merkle_root, InvalidMerkleRoot)
\* (submit_census.rs 22-25, submit_attestation.rs 47-50).
merkle_root_matches(root) == root = census_state.merkle_root

scope_matches_First8(external_nullifier) ==
    SubSeq(external_nullifier, 1, 8) = to_le_bytes(census_state.current_scope, 8)

\* require!(external_nullifier == &expected_external, CensusScopeExpired)
\* (submit_census.rs 28-34, submit_attestation.rs 56-62).
scope_matches(external_nullifier) ==
    external_nullifier = expected_external(census_state.current_scope)

\* submit_census.rs handler.
submit_census_handler(proof, public_inputs) ==
    LET proof_root == public_inputs[1]
        nullifier_hash == public_inputs[2]
        external_nullifier == public_inputs[4]
        created == WithNullifier(nullifier_hash, ZeroedNullifier)
        proof_valid == verify_groth16_proof(proof, public_inputs)
    IN  IF ~merkle_root_matches(proof_root)
        THEN Failed("InvalidMerkleRoot", census_state, created, NoEvents)
        ELSE IF ~scope_matches(external_nullifier)
        THEN Failed("CensusScopeExpired", census_state, created, NoEvents)
        ELSE IF proof_valid = "InvalidProofFormat"
        THEN Failed("InvalidProofFormat", census_state, created, NoEvents)
        ELSE IF proof_valid # "true"
        THEN Failed("InvalidProof", census_state, created, NoEvents)
        ELSE RecordSubmission(nullifier_hash)

submit_census(proof, public_inputs) ==
    LET acc == SubmitCensusAccounts(public_inputs)
    IN  IF acc # "Ok"
        THEN Failed(acc, census_state, nullifiers, NoEvents)
        ELSE submit_census_handler(proof, public_inputs)

\* ----------------------------------------------------- submit_attestation

\* The instruction arguments of submit_attestation (lib.rs 60-65).
Attestation(timestamp, merkle_root, nullifier_hash, external_nullifier, signal_hash) ==
    [timestamp |-> timestamp, merkle_root |-> merkle_root,
     nullifier_hash |-> nullifier_hash,
     external_nullifier |-> external_nullifier, signal_hash |-> signal_hash]

\* The message the handler reconstructs: timestamp.to_le_bytes() followed by
\* the four 32-byte fields.
AttestationMessage(att) ==
    <<att.timestamp, att.merkle_root, att.nullifier_hash,
      att.external_nullifier, att.signal_hash>>

\* An Ed25519 signature, by the key and the message it verifies under.
Signature(key, message) == [key |-> key, message |-> message]

\* How an attestation is presented: the verifier account named, whether that
\* account signed the transaction, and the key that signed the message.
Credentials ==
    {[verifier |-> "verifier", is_signer |-> TRUE, signed_by |-> "verifier"],
     [verifier |-> "outsider", is_signer |-> TRUE, signed_by |-> "outsider"],
     [verifier |-> "verifier", is_signer |-> TRUE, signed_by |-> "outsider"],
     [verifier |-> "verifier", is_signer |-> FALSE, signed_by |-> "verifier"]}

\* contexts.rs SubmitAttestation: verifier is a Signer, so the transaction
\* must carry the verifier's transaction signature.
SubmitAttestationAccounts(verifier_is_signer, nullifier_hash) ==
    IF ~verifier_is_signer THEN "AccountNotSigner"
    ELSE NullifierInit(nullifier_hash)

timestamp_recent_Inclusive(time_diff) ==
    time_diff >= 0 /\ time_diff <= ATTESTATION_WINDOW

\* require!(time_diff >= 0 && time_diff < 300, AttestationExpired)
timestamp_recent(time_diff) == time_diff >= 0 /\ time_diff < ATTESTATION_WINDOW

submit_attestation_handler_AttestationTime(verifier, verifier_is_signer, att, signature) ==
    LET created == WithNullifier(att.nullifier_hash, ZeroedNullifier)
        recorded == RecordSubmission(att.nullifier_hash)
    IN  IF ~timestamp_recent(clock - att.timestamp)
        THEN Failed("AttestationExpired", census_state, created, NoEvents)
        ELSE IF ~merkle_root_matches(att.merkle_root)
        THEN Failed("InvalidMerkleRoot", census_state, created, NoEvents)
        ELSE IF ~scope_matches(att.external_nullifier)
        THEN Failed("CensusScopeExpired", census_state, created, NoEvents)
        ELSE IF ~verifier_is_signer
        THEN Failed("InvalidVerifierSignature", census_state, created, NoEvents)
        ELSE [recorded EXCEPT
                 !.nul[att.nullifier_hash].timestamp = att.timestamp]

\* submit_attestation.rs handler.  The `signature` argument and the message
\* are built but never checked; the only check of step 4 is is_signer.
submit_attestation_handler(verifier, verifier_is_signer, att, signature) ==
    LET created == WithNullifier(att.nullifier_hash, ZeroedNullifier)
        time_diff == clock - att.timestamp
        message == AttestationMessage(att)
    IN  IF ~timestamp_recent(time_diff)
        THEN Failed("AttestationExpired", census_state, created, NoEvents)
        ELSE IF ~merkle_root_matches(att.merkle_root)
        THEN Failed("InvalidMerkleRoot", census_state, created, NoEvents)
        ELSE IF ~scope_matches(att.external_nullifier)
        THEN Failed("CensusScopeExpired", census_state, created, NoEvents)
        ELSE IF ~verifier_is_signer
        THEN Failed("InvalidVerifierSignature", census_state, created, NoEvents)
        ELSE RecordSubmission(att.nullifier_hash)

submit_attestation(verifier, verifier_is_signer, att, signature) ==
    LET acc == SubmitAttestationAccounts(verifier_is_signer, att.nullifier_hash)
    IN  IF acc # "Ok"
        THEN Failed(acc, census_state, nullifiers, NoEvents)
        ELSE submit_attestation_handler(verifier, verifier_is_signer, att,
                                        signature)

\* ------------------------------------------------------------ transactions

Submissions == {"submit_census", "submit_attestation"}

\* What `last` records of a transaction: the instruction, who signed it,
\* the error it returned and the events it emitted.
Receipt(op, signer, res) ==
    [op |-> op, signer |-> signer, err |-> res.err, events |-> res.ev]

NoReceipt(op) ==
    [op |-> op, signer |-> DefaultPubkey, err |-> "Ok", events |-> NoEvents]

\* The runtime ends the transaction: the account writes of an instruction
\* that returned Ok are stored, those of one that returned Err are dropped.
\* The events are in the transaction's log either way.
Outcome(res) ==
    IF res.err = "Ok" THEN res
    ELSE Result(res.err, census_state, nullifiers, res.ev)

\* One transaction with one instruction; `hash` is the nullifier hash of a
\* submission (0 for the other instructions).
Commit(op, signer, hash, res) ==
    LET out == Outcome(res)
    IN  /\ initialized' = (initialized \/ (op = "initialize" /\ out.err = "Ok"))
        /\ census_state' = out.cs
        /\ nullifiers' = out.nul
        /\ last' = Receipt(op, signer, out)
        /\ accepted' = IF op \in Submissions /\ out.err = "Ok"
                       THEN [accepted EXCEPT ![hash] = @ + 1]
                       ELSE accepted
        /\ counted' =
              IF op = "initialize" /\ out.err = "Ok" THEN 0
              ELSE IF \E i \in DOMAIN out.ev : out.ev[i].event = "ScopeAdvanced"
              THEN 0
              ELSE counted + Cardinality({i \in DOMAIN out.ev :
                                             out.ev[i].event = "CensusCounted"})
        /\ UNCHANGED clock

Init ==
    /\ initialized = FALSE
    /\ census_state = NoCensusState
    /\ nullifiers = <<>>
    /\ clock = 0
    /\ last = NoReceipt("none")
    /\ accepted = [h \in NullifierHashes |-> 0]
    /\ counted = 0

\* lib.rs census::initialize
Initialize ==
    \E signer \in Deployers, scope_duration \in ScopeDurations :
        Commit("initialize", signer, 0, initialize(signer, scope_duration))

\* lib.rs census::register_citizen
RegisterCitizen ==
    \E signer \in Pubkeys, identity_commitment \in Commitments :
        Commit("register_citizen", signer, 0,
               register_citizen(signer, identity_commitment))

\* lib.rs census::set_merkle_root
SetMerkleRoot ==
    \E signer \in Pubkeys, root \in Roots :
        Commit("set_merkle_root", signer, 0, set_merkle_root(signer, root))

\* lib.rs census::advance_scope
AdvanceScope ==
    \E signer \in Pubkeys :
        Commit("advance_scope", signer, 0, advance_scope(signer))

\* lib.rs census::submit_census
SubmitCensus ==
    \E payer \in Payers, root \in Roots, hash \in NullifierHashes,
       signal \in SignalHashes, ext \in ExternalNullifiers :
        \E proof \in ProofsFor(PublicInputs(root, hash, signal, ext)) :
            Commit("submit_census", payer, hash,
                   submit_census(proof, PublicInputs(root, hash, signal, ext)))

\* lib.rs census::submit_attestation
SubmitAttestation ==
    \E payer \in Payers, time_diff \in TimeDiffs, root \in Roots,
       hash \in NullifierHashes, signal \in SignalHashes,
       ext \in ExternalNullifiers, cred \in Credentials :
        LET att == Attestation(clock - time_diff, root, hash, ext, signal)
        IN  Commit("submit_attestation", payer, hash,
                   submit_attestation(cred.verifier, cred.is_signer, att,
                       Signature(cred.signed_by, AttestationMessage(att))))

\* The clock sysvar advances between transactions.
Tick ==
    /\ clock < MaxClock
    /\ clock' = clock + 1
    /\ last' = NoReceipt("tick")
    /\ UNCHANGED <<initialized, census_state, nullifiers, accepted, counted>>

Next ==
    \/ Initialize
    \/ RegisterCitizen
    \/ SetMerkleRoot
    \/ AdvanceScope
    \/ SubmitCensus
    \/ SubmitAttestation
    \/ Tick

Spec == Init /\ [][Next]_vars

\* ------------------------------------------------------------------ claims

\* Every submit_census a client of the model can send with this root, hash
\* and external nullifier, by the error the transaction ends with.
CensusErrs(root, hash, ext) ==
    {Outcome(submit_census(proof, PublicInputs(root, hash, signal, ext))).err :
        signal \in SignalHashes,
        proof \in UNION {ProofsFor(PublicInputs(root, hash, sg, ext)) :
                            sg \in SignalHashes}}

\* The transaction of a submit_attestation.
AttestationOutcome(cred, time_diff, root, hash, ext, signal) ==
    LET att == Attestation(clock - time_diff, root, hash, ext, signal)
    IN  Outcome(submit_attestation(cred.verifier, cred.is_signer, att,
                    Signature(cred.signed_by, AttestationMessage(att))))

\* Every submit_attestation with this root, hash and external nullifier.
AttestationErrs(root, hash, ext) ==
    {AttestationOutcome(cred, time_diff, root, hash, ext, signal).err :
        cred \in Credentials, time_diff \in TimeDiffs, signal \in SignalHashes}

\* C1: for every nullifier hash h at most one submission carrying h ever
\* succeeds, over both paths; once one has, every submission carrying h
\* fails, whatever its path, scope binding, root, proof or credential.
NullifierUniqueness ==
    \A h \in NullifierHashes :
        /\ accepted[h] <= 1
        /\ accepted[h] = 1 =>
              \A root \in Roots, ext \in ExternalNullifiers :
                  /\ "Ok" \notin CensusErrs(root, h, ext)
                  /\ "Ok" \notin AttestationErrs(root, h, ext)

\* A hash was accepted once and a later submission was refused as a duplicate.
NullifierUniquenessWitness ==
    /\ \E h \in NullifierHashes : accepted[h] = 1
    /\ last.op \in Submissions
    /\ last.err = "AccountAlreadyInUse"

\* C2: a successful submission of either path raises current_population by
\* exactly 1; a rejected one, whatever the reason (a failed nullifier claim
\* included), leaves it as it was.
ExactlyOnceIncrement ==
    [][last'.op \in Submissions =>
          IF last'.err = "Ok"
          THEN census_state'.current_population
                   = census_state.current_population + 1
          ELSE census_state'.current_population
                   = census_state.current_population]_vars

\* An attestation was counted as the second member of the scope.
ExactlyOnceIncrementWitness ==
    /\ last.op = "submit_attestation"
    /\ last.err = "Ok"
    /\ census_state.current_population = 2

\* C3: a submission of either path whose root differs from the ledger's
\* merkle_root when it is processed is rejected, also with a sound proof or a
\* fresh attestation of an authorized signer; it claims no nullifier and
\* leaves the ledger as it was.
RootGating ==
    initialized =>
        \A root \in Roots \ {census_state.merkle_root},
           hash \in NullifierHashes, ext \in ExternalNullifiers,
           signal \in SignalHashes :
            /\ \A proof \in ProofsFor(PublicInputs(root, hash, signal, ext)) :
                LET out == Outcome(submit_census(proof,
                               PublicInputs(root, hash, signal, ext)))
                IN  /\ out.err # "Ok"
                    /\ out.nul = nullifiers
                    /\ out.cs = census_state
            /\ \A cred \in Credentials, time_diff \in TimeDiffs :
                LET out == AttestationOutcome(cred, time_diff, root, hash, ext,
                                              signal)
                IN  /\ out.err # "Ok"
                    /\ out.nul = nullifiers
                    /\ out.cs = census_state

\* A submission was refused for its root after the admin published a root and
\* members had been counted.
RootGatingWitness ==
    /\ last.op \in Submissions
    /\ last.err = "InvalidMerkleRoot"
    /\ census_state.merkle_root # ZeroRoot
    /\ census_state.current_population >= 1

\* The 32 bytes that bind a submission to `scope`: the scope as 8
\* little-endian bytes, then 24 zero bytes.
ScopeBindingOf ==
    [scope \in 0..(U64_MAX + 1) |->
        LET le == to_le_bytes(scope, 8)
        IN  [i \in 1..32 |-> IF i <= 8 THEN le[i] ELSE 0]]

ScopeBinding(scope) == ScopeBindingOf[scope]

\* C4: a submission of either path whose external nullifier is not the
\* binding value of current_scope is rejected, so one that carries the
\* binding value of scope s is accepted only while current_scope = s.
ScopeGating ==
    initialized =>
        \A root \in Roots, hash \in NullifierHashes, ext \in ExternalNullifiers :
            LET accepts == "Ok" \in CensusErrs(root, hash, ext)
                                    \cup AttestationErrs(root, hash, ext)
            IN  /\ ext # ScopeBinding(census_state.current_scope) => ~accepts
                /\ \A s \in 1..U64_MAX :
                      ext = ScopeBinding(s) /\ accepts
                          => census_state.current_scope = s

\* In scope 2 a submission was refused for its scope binding.
ScopeGatingWitness ==
    /\ last.op \in Submissions
    /\ last.err = "CensusScopeExpired"
    /\ census_state.current_scope = 2

\* Whether some submission carrying h, of either path, would be accepted.
Resubmittable(h) ==
    \E root \in Roots, ext \in ExternalNullifiers :
        "Ok" \in CensusErrs(root, h, ext) \cup AttestationErrs(root, h, ext)

\* C5: a successful advance_scope leaves current_population 0 and
\* current_scope one more than before, and every Nullifier that existed
\* before it still exists unchanged, so no submission carrying its hash is
\* accepted afterwards.
ScopeRotation ==
    [][last'.op = "advance_scope" /\ last'.err = "Ok" =>
          /\ census_state'.current_population = 0
          /\ census_state'.current_scope = census_state.current_scope + 1
          /\ \A h \in DOMAIN nullifiers :
                /\ h \in DOMAIN nullifiers'
                /\ nullifiers'[h] = nullifiers[h]
                /\ ~Resubmittable(h)']_vars

\* The scope was advanced while nullifiers were claimed.
ScopeRotationWitness ==
    /\ last.op = "advance_scope"
    /\ last.err = "Ok"
    /\ DOMAIN nullifiers # {}

\* The error a sound proof bound to scope 1 and the current root ends with
\* when it is submitted with nullifier hash h.
Scope1ProofErr(h) ==
    LET public_inputs == PublicInputs(census_state.merkle_root, h, 0,
                                      ScopeBinding(1))
    IN  Outcome(submit_census(Proof(TRUE, public_inputs), public_inputs)).err

\* C6 as stated: a proof bound to scope 1 that was counted in scope 1 and is
\* submitted again after advance_scope is rejected with the scope-mismatch
\* error, whether or not its nullifier is claimed.
ReplayRejectedByScopeGate ==
    \A h \in DOMAIN nullifiers :
        census_state.current_scope = 2 /\ nullifiers[h].scope = 1
            => Scope1ProofErr(h) = "CensusScopeExpired"

\* C6 as amended: after advance_scope a proof bound to scope 1 is rejected;
\* when its nullifier is claimed, as in the scenario, by the creation of the
\* Nullifier account, which comes before the handler's scope check, and with
\* the scope-mismatch error only when its nullifier is not claimed.
ReplayRejected ==
    initialized /\ census_state.current_scope >= 2 =>
        \A h \in NullifierHashes :
            Scope1ProofErr(h) = IF h \in DOMAIN nullifiers
                                THEN "AccountAlreadyInUse"
                                ELSE "CensusScopeExpired"

\* In scope 2 a proof was refused whose nullifier was claimed in scope 1.
ReplayRejectedWitness ==
    /\ census_state.current_scope = 2
    /\ last.op = "submit_census"
    /\ last.err = "AccountAlreadyInUse"
    /\ \E h \in DOMAIN nullifiers : nullifiers[h].scope = 1

\* C7: an instruction that returns an error, whichever and for whatever
\* reason, leaves the census state and the Nullifier accounts as they were,
\* and has emitted no event.
AtomicFailure ==
    [][last'.err # "Ok" =>
          /\ initialized' = initialized
          /\ census_state' = census_state
          /\ nullifiers' = nullifiers
          /\ last'.events = NoEvents]_vars

\* A submission failed on the population counter, after its handler had
\* written the Nullifier account.
AtomicFailureWitness ==
    /\ last.op \in Submissions
    /\ last.err = "ArithmeticOverflow"

AdminInstructions == {"register_citizen", "set_merkle_root", "advance_scope"}

\* C8: register_citizen, set_merkle_root and advance_scope succeed only when
\* signed by the admin stored by initialize; signed by anyone else they fail
\* with UnauthorizedAdmin and change nothing; no instruction changes admin.
AdminOnly ==
    [][/\ initialized => census_state'.admin = census_state.admin
       /\ last'.op \in AdminInstructions /\ last'.err = "Ok"
              => initialized /\ last'.signer = census_state.admin
       /\ last'.op \in AdminInstructions /\ initialized
              /\ last'.signer # census_state.admin
              => /\ last'.err = "UnauthorizedAdmin"
                 /\ census_state' = census_state
                 /\ nullifiers' = nullifiers]_vars

\* Someone other than the admin tried to advance a scope with members counted.
AdminOnlyWitness ==
    /\ last.op = "advance_scope"
    /\ last.err = "UnauthorizedAdmin"
    /\ census_state.current_population >= 1

\* Every check of an attestation other than freshness passes: an authorized
\* verifier signed the transaction and the message, the root and the scope
\* binding are current, the nullifier is unclaimed and the counter has room.
OtherChecksPass(cred, root, hash, ext) ==
    /\ cred.verifier \in AuthorizedVerifiers
    /\ cred.is_signer
    /\ cred.signed_by = cred.verifier
    /\ root = census_state.merkle_root
    /\ ext = ScopeBinding(census_state.current_scope)
    /\ hash \notin DOMAIN nullifiers
    /\ census_state.is_active
    /\ census_state.current_population < U64_MAX

\* C9: an attestation is accepted only if 0 <= now - timestamp < 300; with
\* every other check passing it is accepted at 299 and rejected as expired
\* at 300 and at -1.
FreshnessBoundary ==
    initialized =>
        \A cred \in Credentials, time_diff \in TimeDiffs, root \in Roots,
           hash \in NullifierHashes, ext \in ExternalNullifiers,
           signal \in SignalHashes :
            LET err == AttestationOutcome(cred, time_diff, root, hash, ext,
                                          signal).err
            IN  /\ err = "Ok" => 0 <= time_diff /\ time_diff < 300
                /\ OtherChecksPass(cred, root, hash, ext) =>
                      /\ time_diff = 299 => err = "Ok"
                      /\ time_diff \in {300, -1} => err = "AttestationExpired"

\* An attestation was refused as expired after another had been counted.
FreshnessBoundaryWitness ==
    /\ last.op = "submit_attestation"
    /\ last.err = "AttestationExpired"
    /\ DOMAIN nullifiers # {}

\* C10 as stated: an attestation is accepted only if the verifier that
\* presents it is on the allow-list of authorized verifiers.
OnlyAuthorizedVerifiers ==
    \A cred \in Credentials, time_diff \in TimeDiffs, root \in Roots,
       hash \in NullifierHashes, ext \in ExternalNullifiers,
       signal \in SignalHashes :
        AttestationOutcome(cred, time_diff, root, hash, ext, signal).err = "Ok"
            => cred.verifier \in AuthorizedVerifiers

\* Ed25519 verification of `signature` under `key` over `message`.
ValidSignature(signature, key, message) ==
    signature.key = key /\ signature.message = message

\* The signatures a client may send with an attestation presented with
\* `cred`: one by the key of cred.signed_by over the attestation's message,
\* and one by the verifier's key over the message of the attestation with
\* another signal hash.
SignaturesFor(cred, att) ==
    {Signature(cred.signed_by, AttestationMessage(att)),
     Signature(cred.verifier,
               AttestationMessage([att EXCEPT !.signal_hash = 1 - @]))}

\* C11 as stated: an attestation is accepted only if the 64-byte signature
\* is a valid signature, under the verifier's key, of the message made of
\* the five submitted fields; with any other signature, and every other
\* check passing, it is rejected with InvalidVerifierSignature.
SignatureChecked ==
    \A cred \in Credentials, time_diff \in TimeDiffs, root \in Roots,
       hash \in NullifierHashes, ext \in ExternalNullifiers,
       signal \in SignalHashes :
        LET att == Attestation(clock - time_diff, root, hash, ext, signal)
        IN  \A signature \in SignaturesFor(cred, att) :
                LET err == Outcome(submit_attestation(cred.verifier,
                               cred.is_signer, att, signature)).err
                    valid == ValidSignature(signature, cred.verifier,
                                            AttestationMessage(att))
                IN  /\ err = "Ok" => valid
                    /\ ~valid /\ cred.is_signer
                           /\ OtherChecksPass([cred EXCEPT
                                  !.signed_by = cred.verifier], root, hash, ext)
                           /\ time_diff \in {0, 299}
                           => err = "InvalidVerifierSignature"

\* The transactions of every submit_census carrying nullifier hash h.
CensusOutcomes(h) ==
    UNION {{Outcome(submit_census(proof, PublicInputs(root, h, signal, ext))) :
                proof \in ProofsFor(PublicInputs(root, h, signal, ext))} :
            root \in Roots, signal \in SignalHashes, ext \in ExternalNullifiers}

\* The transactions of every submit_attestation carrying nullifier hash h.
AttestationOutcomes(h) ==
    {AttestationOutcome(cred, time_diff, root, h, ext, signal) :
        cred \in Credentials, time_diff \in TimeDiffs, root \in Roots,
        signal \in SignalHashes, ext \in ExternalNullifiers}

\* C13: from the same ledger and the same Nullifier accounts, every accepted
\* submit_census and every accepted submit_attestation carrying the same
\* nullifier hash h leave the same result: the Nullifier (h, current_scope,
\* now), the census state with current_population one higher and no other
\* field changed, and the same CensusCounted event; where one path accepts
\* h so does the other, and once h is claimed neither path accepts it.
PathEquivalence ==
    initialized =>
        \A h \in NullifierHashes :
            LET by_proof == {out \in CensusOutcomes(h) : out.err = "Ok"}
                by_attestation ==
                    {out \in AttestationOutcomes(h) : out.err = "Ok"}
            IN  /\ \A out \in by_proof \cup by_attestation :
                      /\ out.nul = WithNullifier(h,
                             [nullifier_hash |-> h,
                              scope |-> census_state.current_scope,
                              timestamp |-> clock])
                      /\ out.cs = [census_state EXCEPT
                                      !.current_population = @ + 1]
                      /\ out.ev = <<[event |-> "CensusCounted",
                                     nullifier_hash |-> h,
                                     scope |-> census_state.current_scope,
                                     new_population |->
                                         census_state.current_population + 1,
                                     timestamp |-> clock]>>
                /\ (by_proof = {}) <=> (by_attestation = {})
                /\ h \in DOMAIN nullifiers =>
                      by_proof = {} /\ by_attestation = {}

\* An attestation was counted at a later time than the ledger was created,
\* and the other hashes are still unclaimed.
PathEquivalenceWitness ==
    /\ last.op = "submit_attestation"
    /\ last.err = "Ok"
    /\ Cardinality(DOMAIN nullifiers) = 1
    /\ clock = 1
    /\ census_state.scope_start_time = 0

\* The submissions carrying h that pass every check but the nullifier claim:
\* a sound proof, or a fresh attestation presented and signed by an
\* authorized verifier, for the current root and the current scope.
AdmissibleOutcomes(h) ==
    LET root == census_state.merkle_root
        ext == ScopeBinding(census_state.current_scope)
    IN  {Outcome(submit_census(Proof(TRUE, PublicInputs(root, h, signal, ext)),
                               PublicInputs(root, h, signal, ext))) :
            signal \in SignalHashes}
        \cup
        {AttestationOutcome(cred, time_diff, root, h, ext, signal) :
            cred \in {c \in Credentials :
                         /\ c.verifier \in AuthorizedVerifiers
                         /\ c.is_signer
                         /\ c.signed_by = c.verifier},
            time_diff \in {0, 299}, signal \in SignalHashes}

\* C14: of the admissible submissions carrying the same nullifier hash,
\* processed in any order, exactly one commits: the hash is accepted at most
\* once, there is a Nullifier for it exactly when it was, the population
\* counts each hash accepted in the current scope once, and every further
\* admissible submission carrying it fails as a duplicate and changes nothing.
OneWinner ==
    initialized =>
        /\ \A h \in NullifierHashes :
              /\ accepted[h] <= 1
              /\ h \in DOMAIN nullifiers <=> accepted[h] = 1
              /\ h \in DOMAIN nullifiers =>
                    \A out \in AdmissibleOutcomes(h) :
                        out = Result("AccountAlreadyInUse", census_state,
                                     nullifiers, NoEvents)
        /\ census_state.current_population =
              Cardinality({h \in DOMAIN nullifiers :
                              /\ accepted[h] = 1
                              /\ nullifiers[h].scope = census_state.current_scope})

\* Two hashes were counted and an attestation carrying a counted hash lost.
OneWinnerWitness ==
    /\ last.op = "submit_attestation"
    /\ last.err = "AccountAlreadyInUse"
    /\ census_state.current_population = 2
    /\ Cardinality({h \in NullifierHashes : accepted[h] = 1}) = 2

\* C15 as stated: with the ledger active, the nullifier never claimed and
\* current_population below its maximum, a submission for the current root
\* and the binding value of the current scope succeeds when its proof
\* verifies, or when its attestation is fresh and validly signed by an
\* authorized signer.
NeverWronglyRejected ==
    initialized /\ census_state.is_active
        /\ census_state.current_population < U64_MAX =>
        \A h \in NullifierHashes \ DOMAIN nullifiers, signal \in SignalHashes :
            LET root == census_state.merkle_root
                ext == ScopeBinding(census_state.current_scope)
                public_inputs == PublicInputs(root, h, signal, ext)
            IN  /\ Outcome(submit_census(Proof(TRUE, public_inputs),
                                         public_inputs)).err = "Ok"
                /\ \A cred \in Credentials, time_diff \in TimeDiffs :
                      LET att == Attestation(clock - time_diff, root, h, ext,
                                             signal)
                          signature == Signature(cred.signed_by,
                                                 AttestationMessage(att))
                      IN  /\ 0 <= time_diff /\ time_diff < ATTESTATION_WINDOW
                          /\ cred.verifier \in AuthorizedVerifiers
                          /\ ValidSignature(signature, cred.verifier,
                                            AttestationMessage(att))
                          => Outcome(submit_attestation(cred.verifier,
                                 cred.is_signer, att, signature)).err = "Ok"

\* C16: a Nullifier, once it exists for hash h, exists after every
\* instruction with the same hash, scope and timestamp, stored under h, and
\* no later transaction is a successful submission carrying h.
AppendOnly ==
    [][\A h \in DOMAIN nullifiers :
          /\ h \in DOMAIN nullifiers'
          /\ nullifiers'[h] = nullifiers[h]
          /\ nullifiers'[h].nullifier_hash = h
          /\ accepted'[h] = accepted[h]]_vars

\* A hash claimed in scope 1 was submitted again after the scope was
\* advanced, a new root published and time had passed.
AppendOnlyWitness ==
    /\ last.op \in Submissions
    /\ last.err = "AccountAlreadyInUse"
    /\ census_state.current_scope = 2
    /\ census_state.merkle_root # ZeroRoot
    /\ clock = 1
    /\ \A h \in DOMAIN nullifiers : nullifiers[h].scope = 1 /\ nullifiers[h].timestamp = 0

\* The hashes whose Nullifier carries the current scope.
ClaimedInScope ==
    {h \in DOMAIN nullifiers : nullifiers[h].scope = census_state.current_scope}

\* C17: current_population is at most the number of distinct nullifiers
\* claimed since the last successful advance_scope (since initialize when
\* there was none).  Those are the Nullifier accounts that carry the
\* current scope: their set is empty after initialize and advance_scope,
\* gains the unclaimed hash of each accepted submission, and is otherwise
\* left alone.
PopulationBounded ==
    [][/\ IF last'.err # "Ok" \/ last'.op = "tick"
          THEN ClaimedInScope' = ClaimedInScope
          ELSE IF last'.op \in {"initialize", "advance_scope"}
          THEN ClaimedInScope' = {}
          ELSE IF last'.op \in Submissions
          THEN /\ last'.events[1].nullifier_hash \notin DOMAIN nullifiers
               /\ ClaimedInScope' =
                      ClaimedInScope \cup {last'.events[1].nullifier_hash}
          ELSE ClaimedInScope' = ClaimedInScope
       /\ census_state'.current_population <= Cardinality(ClaimedInScope')]_vars

\* A member was counted in scope 2 while a Nullifier of scope 1 exists.
PopulationBoundedWitness ==
    /\ last.op \in Submissions
    /\ last.err = "Ok"
    /\ census_state.current_scope = 2
    /\ census_state.current_population = 1
    /\ Cardinality(DOMAIN nullifiers) = 2

\* What is left of a transaction that failed on a counter.
Overflowed == Result("ArithmeticOverflow", census_state, nullifiers, NoEvents)

\* C18: no counter wraps: advance_scope with current_scope at the maximum,
\* a submission with current_population at the maximum, and
\* register_citizen with leaf_count or total_registered at the maximum fail
\* with ArithmeticOverflow and leave the census state and the Nullifier
\* accounts as they were.
NoSilentWrap ==
    initialized =>
        /\ census_state.current_scope = U64_MAX =>
              Outcome(advance_scope(census_state.admin)) = Overflowed
        /\ census_state.current_population = U64_MAX =>
              \A h \in NullifierHashes :
                  /\ \A out \in CensusOutcomes(h) \cup AttestationOutcomes(h) :
                        /\ out.err # "Ok"
                        /\ out.cs = census_state
                        /\ out.nul = nullifiers
                  /\ h \notin DOMAIN nullifiers =>
                        \A out \in AdmissibleOutcomes(h) : out = Overflowed
        /\ census_state.leaf_count = U64_MAX
               \/ census_state.total_registered = U64_MAX =>
              \A identity_commitment \in Commitments :
                  Outcome(register_citizen(census_state.admin,
                                           identity_commitment)) = Overflowed

\* An enrollment failed on its counter in a ledger whose scope and population
\* counters are at their maximum too.
NoSilentWrapWitness ==
    /\ last.op = "register_citizen"
    /\ last.err = "ArithmeticOverflow"
    /\ census_state.current_scope = U64_MAX
    /\ census_state.current_population = U64_MAX
    /\ DOMAIN nullifiers # NullifierHashes

\* C19: a successful advance_scope changes current_scope, scope_start_time
\* and current_population and nothing else: admin, merkle_root,
\* scope_duration, total_registered, leaf_count, is_active and every
\* Nullifier are as before.
AdvanceScopeFrame ==
    [][last'.op = "advance_scope" /\ last'.err = "Ok" =>
          /\ census_state' =
                [census_state EXCEPT
                    !.current_scope = census_state'.current_scope,
                    !.scope_start_time = census_state'.scope_start_time,
                    !.current_population = census_state'.current_population]
          /\ census_state'.current_scope # census_state.current_scope
          /\ nullifiers' = nullifiers]_vars

\* The scope was advanced, at a later time than it started, in a ledger with
\* enrollments, a published root and a member counted.
AdvanceScopeFrameWitness ==
    /\ last.op = "advance_scope"
    /\ last.err = "Ok"
    /\ census_state.leaf_count >= 1
    /\ census_state.merkle_root # ZeroRoot
    /\ census_state.scope_start_time = 1
    /\ DOMAIN nullifiers # {}

ChecksInOrder ==
    initialized =>
        \A cred \in Credentials, time_diff \in TimeDiffs, root \in Roots,
           hash \in NullifierHashes \ DOMAIN nullifiers,
           ext \in ExternalNullifiers, signal \in SignalHashes :
            LET err == AttestationOutcome(cred, time_diff, root, hash, ext,
                                          signal).err
                signed == cred.is_signer /\ cred.signed_by = cred.verifier
            IN  IF ~(0 <= time_diff /\ time_diff < ATTESTATION_WINDOW)
                THEN err = "AttestationExpired"
                ELSE IF root # census_state.merkle_root
                THEN err = "InvalidMerkleRoot"
                ELSE IF ext # ScopeBinding(census_state.current_scope)
                THEN err = "CensusScopeExpired"
                ELSE ~signed => err = "InvalidVerifierSignature"

NullifierAccounting ==
    initialized =>
        /\ \A h \in DOMAIN nullifiers :
              /\ 1 <= nullifiers[h].scope
              /\ nullifiers[h].scope <= census_state.current_scope
              /\ nullifiers[h].nullifier_hash = h
        /\ Cardinality({h \in DOMAIN nullifiers :
                           nullifiers[h].scope = census_state.current_scope})
               = census_state.current_population

\* Every hash is claimed, one in scope 1 and the others in scope 2.
NullifierAccountingWitness ==
    /\ census_state.current_scope = 2
    /\ census_state.current_population = 2
    /\ DOMAIN nullifiers = NullifierHashes
    /\ \E h \in DOMAIN nullifiers : nullifiers[h].scope = 1
    /\ last.op \in Submissions
    /\ last.err = "Ok"

====
